---------------------------- MODULE Spec2Model ----------------------------
(***************************************************************************)
(* A model of the micro device plugin (kelein/micro-device-plugin).        *)
(*                                                                         *)
(*   src/cmd/micro/micro.go     main: go micro.Run(), RegisterToKubelet,   *)
(*                              then the kubelet.sock watch loop           *)
(*   src/pkg/server/server.go   MicroDeviceServer: Run (scan, watcher,     *)
(*                              listener, supervised Serve loop, dial),    *)
(*                              RegisterToKubelet, Allocate, ListAndWatch, *)
(*                              findDevice, watchDevice                    *)
(*                                                                         *)
(* The specifications share the variables:                                 *)
(*   Spec       the program from main on: start-up, the watched directory, *)
(*              the watcher goroutine and the ListAndWatch streams         *)
(*   SpecWatch  the same watcher and streams after a start-up in which     *)
(*              nothing failed (a state Spec reaches)                      *)
(*   SpecCancel the same with the cancellation of s.ctx, and               *)
(*              SpecCancelFair with the scheduler's fairness               *)
(*   SpecSup    the supervised Serve loop of Run, with a clock             *)
(*   SpecAlloc  the Allocate handler on bounded requests                   *)
(*                                                                         *)
(* Strings are TLA+ strings; \o is string concatenation.  A goroutine is a *)
(* program counter; an unbuffered channel send is a state of the sender    *)
(* that a receiver's step leaves (a rendezvous).  The registry (the map    *)
(* s.devices) is read and written without any lock, so every read and      *)
(* every write of it is a step of its own and the steps interleave.        *)
(***************************************************************************)
EXTENDS Integers, Sequences, FiniteSets, TLC

\* ------------------------------------------------------------------ bounds
\* Names the watched directory may hold: regular files and sub-directories.
FileNames == {"a", "b"}
DirNames == {"d"}
\* Changes made to the watched directory in one run.
MaxFsOps == 2
\* ListAndWatch calls made in one run.
NumStreams == 2
\* Clock advances and Serve failures in one run of the supervised loop.
MaxTicks == 4
MaxFailures == 8
\* Allocate: container sub-requests per request, device IDs per sub-request.
MaxContainers == 2
MaxIDs == 2

\* ---------------------------------------------------------- program constants
microPath == "/etc/micro"
maxRestartNum == 5
maxCrashPeriod == 3600
Healthy == "Healthy"
EnvKey == "MICRO_DEVICES"

\* exitCode: "running" until the process ends; "exit0" for a return from main,
\* "exit1" for os.Exit(1), "panic" for the status of an unrecovered panic.
NonZeroExit == {"exit1", "panic"}

Streams == 1 .. NumStreams

\* ------------------------------------------------------------------ helpers
\* md5.Sum([]byte(name)) turned into a string: a fixed-width digest, modelled
\* as an injective tag of the hashed bytes.
MD5 (name) ==
    "md5(" \o name \o ")"

\* The registry record built for a name, at the scan and at a create event.
Device (name) ==
    [ID |-> MD5(name), Health |-> Healthy]

\* os.DirEntry.Name(): the entry's base name.
ScanName (entry) ==
    entry

\* fsnotify.Event.Name for an entry of a directory watched by w.Add(microPath):
\* the watched path joined with the entry's base name.
EventName (entry) ==
    microPath \o "/" \o entry

\* The records a range over the map yields.
Records (devs) ==
    {devs[k] : k \in DOMAIN devs}

\* map assignment s.devices[k] = d, and delete(s.devices, k).
MapPut (devs, k, d) ==
    [x \in (DOMAIN devs) \cup {k} |-> IF x = k THEN d ELSE devs[x]]

MapDelete (devs, k) ==
    [x \in (DOMAIN devs) \ {k} |-> devs[x]]

EmptyMap == [x \in {} |-> Device("")]

VARIABLES
    \* the watched directory (the environment)
    fsFiles,        \* regular files present in microPath (base names)
    fsDirs,         \* sub-directories present in microPath (base names)
    fsLog,          \* history: the changes made to the directory, in order
    missed,         \* history: a change fell between the scan and w.Add
    scanned,        \* history: the base names findDevice registered
    \* main and Run
    mainPc,         \* main goroutine
    runPc,          \* the goroutine of `go micro.Run()`
    runErr,         \* what Run returned: "none" while running, "nil", or the error
    exitCode,       \* "running", or how the process ended
    registerSent,   \* client.Register has been called
    listenerBound,  \* net.Listen has succeeded
    dialOk,         \* the readiness dial of Run has succeeded
    \* MicroDeviceServer
    devices,        \* s.devices: name -> record
    cancelled,      \* s.ctx is done: s.cancel has been called
    \* watchDevice
    watchPc,        \* the goroutine running watchDevice
    loopPc,         \* the goroutine of the event loop inside watchDevice
    watching,       \* w.Add(microPath) has succeeded: events are delivered
    events,         \* events read by fsnotify and not yet received by the loop
    \* ListAndWatch, one call per stream
    lwPc,           \* each call's position
    lwN,            \* len(s.devices) read for the snapshot being built
    lwSent,         \* the messages srv.Send has delivered, in order
    lwStart,        \* history: the registry's records when the call started
    lwSendFailed,   \* history: some srv.Send of the call has failed
    lwRemoves,      \* history: remove events processed while the call was open
    \* the supervised Serve loop
    supPc,          \* "idle", "serving" or "stopped"
    now,            \* the clock, in seconds
    ticks,          \* clock advances so far
    startTime,      \* startTime of the loop (line 120)
    restartNum,     \* restartNum of the loop (line 121)
    fatalLogs,      \* times "has repeatedly crashed" has been logged
    failures,       \* Serve calls that have returned an error
    attemptStart,   \* history: when the current Serve call started
    \* Allocate
    allocReq,       \* the request: a sequence of device-ID lists
    allocResp,      \* the response: a sequence of Envs maps
    allocDone,      \* Allocate has returned
    allocErr        \* the error Allocate returned: "none" before, then "nil"

fsVars == <<fsFiles, fsDirs, fsLog, missed, scanned>>
mainVars == <<mainPc, runPc, runErr, exitCode, registerSent, listenerBound, dialOk>>
watchVars == <<watchPc, loopPc, watching, events>>
lwVars == <<lwPc, lwN, lwSent, lwStart, lwSendFailed, lwRemoves>>
supVars == <<supPc, now, ticks, startTime, restartNum, fatalLogs, failures, attemptStart>>
allocVars == <<allocReq, allocResp, allocDone, allocErr>>
vars == <<fsVars, mainVars, devices, cancelled, watchVars, lwVars, supVars, allocVars>>

\* The state NewMicroDeviceServer leaves, before main starts Run.
InitServer ==
    /\ cancelled = FALSE
    /\ devices = EmptyMap
    /\ mainPc = "start"
    /\ runPc = "init"
    /\ runErr = "none"
    /\ exitCode = "running"
    /\ registerSent = FALSE
    /\ listenerBound = FALSE
    /\ dialOk = FALSE
    /\ watchPc = "init"
    /\ loopPc = "init"
    /\ watching = FALSE
    /\ events = <<>>
    /\ lwPc = [s \in Streams |-> "idle"]
    /\ lwN = [s \in Streams |-> 0]
    /\ lwSent = [s \in Streams |-> <<>>]
    /\ lwStart = [s \in Streams |-> {}]
    /\ lwSendFailed = [s \in Streams |-> FALSE]
    /\ lwRemoves = [s \in Streams |-> 0]
    /\ supPc = "idle"
    /\ now = 0
    /\ ticks = 0
    /\ startTime = 0
    /\ restartNum = 0
    /\ fatalLogs = 0
    /\ failures = 0
    /\ attemptStart = 0
    /\ fsLog = <<>>
    /\ missed = FALSE
    /\ scanned = {}

InitNoAlloc ==
    /\ allocReq = <<>>
    /\ allocResp = <<>>
    /\ allocDone = FALSE
    /\ allocErr = "none"

Init ==
    /\ InitServer
    /\ InitNoAlloc
    /\ fsFiles \in SUBSET FileNames
    /\ fsDirs \in SUBSET DirNames

\* Every goroutine runs only while the process does.
Alive ==
    exitCode = "running"


\* ------------------------------------------------------------ main (micro.go)
\* main, line 68: go micro.Run().  The result of Run is dropped.
MainGoRun ==
    /\ Alive
    /\ mainPc = "start"
    /\ mainPc' = "register"
    /\ runPc' = "findDevice"
    /\ UNCHANGED <<runErr, exitCode, registerSent, listenerBound, dialOk>>
    /\ UNCHANGED <<fsVars, devices, watchVars, lwVars, supVars, allocVars>>
    /\ UNCHANGED cancelled

\* main, lines 70-75, around RegisterToKubelet (server.go 153-173): the dial of
\* kubelet.sock, then client.Register.  Either may fail, and main then calls
\* os.Exit(1).  The handshake is sent when the dial gave a connection.
MainRegister ==
    /\ Alive
    /\ mainPc = "register"
    /\ \E dialed \in BOOLEAN, accepted \in BOOLEAN :
          /\ registerSent' = dialed
          /\ IF dialed /\ accepted
                THEN /\ mainPc' = "newWatcher"
                     /\ exitCode' = exitCode
                ELSE /\ mainPc' = "exited"
                     /\ exitCode' = "exit1"
    /\ UNCHANGED <<runPc, runErr, listenerBound, dialOk>>
    /\ UNCHANGED <<fsVars, devices, watchVars, lwVars, supVars, allocVars>>
    /\ UNCHANGED cancelled

\* main, lines 77-103: the watcher on the plugin directory.  NewWatcher failing
\* is os.Exit(1), w.Add failing is a return from main (status 0), and otherwise
\* main stays in its for/select loop, which only logs.
MainWatchKubelet ==
    /\ Alive
    /\ mainPc = "newWatcher"
    /\ \E outcome \in {"ok", "newWatcherErr", "addErr"} :
          /\ mainPc' = IF outcome = "ok" THEN "watchKubelet" ELSE "exited"
          /\ exitCode' = CASE outcome = "ok" -> exitCode
                           [] outcome = "newWatcherErr" -> "exit1"
                           [] outcome = "addErr" -> "exit0"
    /\ UNCHANGED <<runPc, runErr, registerSent, listenerBound, dialOk>>
    /\ UNCHANGED <<fsVars, devices, watchVars, lwVars, supVars, allocVars>>
    /\ UNCHANGED cancelled

\* ------------------------------------------------------------ Run (server.go)
\* findDevice, lines 242-261, called at line 96: os.ReadDir may fail, and Run
\* then returns the error; otherwise every non-directory entry is put in the
\* registry under its entry name.
ScanDevices (files) ==
    [k \in {ScanName(f) : f \in files} |-> Device(k)]

RunFindDevice ==
    /\ Alive
    /\ runPc = "findDevice"
    /\ \E readable \in BOOLEAN :
          IF readable
             THEN /\ devices' = ScanDevices(fsFiles)
                  /\ scanned' = fsFiles
                  /\ runPc' = "goWatch"
                  /\ runErr' = runErr
             ELSE /\ runPc' = "returned"
                  /\ runErr' = "readDir"
                  /\ UNCHANGED <<devices, scanned>>
    /\ UNCHANGED <<mainPc, exitCode, registerSent, listenerBound, dialOk>>
    /\ UNCHANGED <<fsFiles, fsDirs, fsLog, missed>>
    /\ UNCHANGED <<watchVars, lwVars, supVars, allocVars>>
    /\ UNCHANGED cancelled

\* Run, lines 101-106: the goroutine that runs watchDevice.
RunGoWatch ==
    /\ Alive
    /\ runPc = "goWatch"
    /\ runPc' = "listen"
    /\ watchPc' = "newWatcher"
    /\ UNCHANGED <<mainPc, runErr, exitCode, registerSent, listenerBound, dialOk>>
    /\ UNCHANGED <<loopPc, watching, events>>
    /\ UNCHANGED <<fsVars, devices, lwVars, supVars, allocVars>>
    /\ UNCHANGED cancelled

\* Run, lines 108-117: the stale socket is unlinked and the socket is bound;
\* an unlink error other than "not exist" and a Listen error are returned.
RunListen ==
    /\ Alive
    /\ runPc = "listen"
    /\ \E outcome \in {"ok", "unlinkErr", "listenErr"} :
          /\ listenerBound' = (outcome = "ok")
          /\ runPc' = IF outcome = "ok" THEN "goServe" ELSE "returned"
          /\ runErr' = IF outcome = "ok" THEN runErr ELSE outcome
    /\ UNCHANGED <<mainPc, exitCode, registerSent, dialOk>>
    /\ UNCHANGED <<fsVars, devices, watchVars, lwVars, supVars, allocVars>>
    /\ UNCHANGED cancelled

\* Run, lines 119-124: the goroutine of the supervised loop takes startTime,
\* sets restartNum to 0 and calls Serve on the listener.
RunGoServe ==
    /\ Alive
    /\ runPc = "goServe"
    /\ runPc' = "dial"
    /\ supPc' = "serving"
    /\ startTime' = now
    /\ attemptStart' = now
    /\ restartNum' = 0
    /\ UNCHANGED <<now, ticks, fatalLogs, failures>>
    /\ UNCHANGED <<mainPc, runErr, exitCode, registerSent, listenerBound, dialOk>>
    /\ UNCHANGED <<fsVars, devices, watchVars, lwVars, allocVars>>
    /\ UNCHANGED cancelled

\* Run, lines 144-149: the readiness dial of the plugin's own socket.
RunDial ==
    /\ Alive
    /\ runPc = "dial"
    /\ \E ok \in BOOLEAN :
          /\ dialOk' = ok
          /\ runErr' = IF ok THEN "nil" ELSE "dialErr"
    /\ runPc' = "returned"
    /\ UNCHANGED <<mainPc, exitCode, registerSent, listenerBound>>
    /\ UNCHANGED <<fsVars, devices, watchVars, lwVars, supVars, allocVars>>
    /\ UNCHANGED cancelled


\* ------------------------------------------------- the watched directory
\* An fsnotify event: Op is a set of bits, Name the path of the entry.
Event (op, entry) ==
    [op |-> {op}, name |-> EventName(entry)]

\* The scan has read the directory: a later change is seen only as an event.
ScanDone ==
    runPc \notin {"init", "findDevice"} /\ runErr # "readDir"

\* A change of the watched directory.  fsnotify queues an event for it once
\* w.Add(microPath) has succeeded; a change between the scan and w.Add is not
\* reported to the program at all.  A change made before the scan is the same
\* as another directory to start with, which Init chooses.
FsChange (op, entry) ==
    /\ Alive
    /\ ScanDone
    /\ Len(fsLog) < MaxFsOps
    /\ fsLog' = Append(fsLog, [op |-> op, entry |-> entry])
    /\ events' = IF watching THEN Append(events, Event(op, entry)) ELSE events
    /\ missed' = (missed \/ (ScanDone /\ ~watching))
    /\ UNCHANGED <<scanned, watchPc, loopPc, watching>>
    /\ UNCHANGED <<mainVars, devices, lwVars, supVars, allocVars>>
    /\ UNCHANGED cancelled

FsCreateFile ==
    \E f \in FileNames \ fsFiles :
        /\ fsFiles' = fsFiles \cup {f}
        /\ fsDirs' = fsDirs
        /\ FsChange("Create", f)

FsRemoveFile ==
    \E f \in fsFiles :
        /\ fsFiles' = fsFiles \ {f}
        /\ fsDirs' = fsDirs
        /\ FsChange("Remove", f)

FsMkdir ==
    \E d \in DirNames \ fsDirs :
        /\ fsDirs' = fsDirs \cup {d}
        /\ fsFiles' = fsFiles
        /\ FsChange("Create", d)

FsRmdir ==
    \E d \in fsDirs :
        /\ fsDirs' = fsDirs \ {d}
        /\ fsFiles' = fsFiles
        /\ FsChange("Remove", d)

\* ------------------------------------------------------------- watchDevice
\* watchDevice, lines 265-312: fsnotify.NewWatcher, which may fail (watchDevice
\* returns), then the goroutine of the event loop is started.
WatchNewWatcher ==
    /\ Alive
    /\ watchPc = "newWatcher"
    /\ \E ok \in BOOLEAN :
          /\ watchPc' = IF ok THEN "add" ELSE "returned"
          /\ loopPc' = IF ok THEN "select" ELSE loopPc
    /\ UNCHANGED <<watching, events>>
    /\ UNCHANGED <<fsVars, mainVars, devices, lwVars, supVars, allocVars>>
    /\ UNCHANGED cancelled

\* watchDevice, lines 314-317: w.Add(microPath).  On an error watchDevice
\* returns and the deferred w.Close closes both channels under the loop; on
\* success it waits on done.
WatchAdd ==
    /\ Alive
    /\ watchPc = "add"
    /\ \E ok \in BOOLEAN :
          /\ watching' = ok
          /\ watchPc' = IF ok THEN "waitDone" ELSE "returned"
          /\ loopPc' = IF ok THEN loopPc ELSE "closed"
    /\ UNCHANGED events
    /\ UNCHANGED <<fsVars, mainVars, devices, lwVars, supVars, allocVars>>
    /\ UNCHANGED cancelled

\* The event loop's writes to the registry for one event, lines 286-297: a
\* create bit puts a record under the event's name, a remove bit deletes the
\* event's name.
HandleEvent (devs, e) ==
    LET created == IF "Create" \in e.op
                      THEN MapPut(devs, e.name, Device(e.name))
                      ELSE devs
    IN  IF "Remove" \in e.op THEN MapDelete(created, e.name) ELSE created

\* Every event notified, a create as well as a remove.
Notifies_Always (e) ==
    e.op # {}

\* Only the remove of a registered name notified.
Notifies_OnlyIfRegistered (e) ==
    "Remove" \in e.op /\ e.name \in DOMAIN devices

\* Whether the event makes the loop send on s.notify, line 298.
Notifies (e) ==
    "Remove" \in e.op

\* A ListAndWatch call that has started and not returned.
LwOpen (s) ==
    lwPc[s] \in {"first", "wait", "notified", "next"}

\* The event loop had s.notify a buffer: the loop goes on to the next event
\* with the notification still in the channel.
LoopEvent_Buffered ==
    /\ Alive
    /\ loopPc \in {"select", "notify"}
    /\ events # <<>>
    /\ LET e == Head(events)
       IN  /\ devices' = HandleEvent(devices, e)
           /\ loopPc' = IF Notifies(e) THEN "notify" ELSE "select"
           /\ lwRemoves' = [s \in Streams |->
                              IF Notifies(e) /\ LwOpen(s)
                                 THEN lwRemoves[s] + 1
                                 ELSE lwRemoves[s]]
    /\ events' = Tail(events)
    /\ UNCHANGED <<watchPc, watching>>
    /\ UNCHANGED <<lwPc, lwN, lwSent, lwStart, lwSendFailed>>
    /\ UNCHANGED <<fsVars, mainVars, supVars, allocVars>>
    /\ UNCHANGED cancelled

\* The event loop, lines 278-300: one event is received and handled; after a
\* remove the loop stands at the send on the unbuffered s.notify.
LoopEvent ==
    /\ Alive
    /\ loopPc = "select"
    /\ events # <<>>
    /\ LET e == Head(events)
       IN  /\ devices' = HandleEvent(devices, e)
           /\ loopPc' = IF Notifies(e) THEN "notify" ELSE "select"
           /\ lwRemoves' = [s \in Streams |->
                              IF Notifies(e) /\ LwOpen(s)
                                 THEN lwRemoves[s] + 1
                                 ELSE lwRemoves[s]]
    /\ events' = Tail(events)
    /\ UNCHANGED <<watchPc, watching>>
    /\ UNCHANGED <<lwPc, lwN, lwSent, lwStart, lwSendFailed>>
    /\ UNCHANGED <<fsVars, mainVars, supVars, allocVars>>
    /\ UNCHANGED cancelled

\* ------------------------------------------------------------ ListAndWatch
\* A message of the stream: the slice devs, as the set of the records it
\* holds and the number of slots left nil.
Snapshot (devs, n) ==
    [Devices |-> Records(devs), nilSlots |-> n - Cardinality(DOMAIN devs)]

\* The range over the map writes devs[i] for every entry: with more entries
\* than the length read before, the write is out of range and panics.
Overflows (devs, n) ==
    Cardinality(DOMAIN devs) > n

\* ListAndWatch, lines 192-193: the call starts and reads len(s.devices).
\* kubelet can call once the server serves.
LwStart ==
    /\ Alive
    /\ supPc = "serving"
    /\ \E s \in Streams :
          /\ lwPc[s] = "idle"
          /\ \A t \in Streams : t < s => lwPc[t] # "idle"
          /\ lwPc' = [lwPc EXCEPT ![s] = "first"]
          /\ lwN' = [lwN EXCEPT ![s] = Cardinality(DOMAIN devices)]
          /\ lwStart' = [lwStart EXCEPT ![s] = Records(devices)]
    /\ UNCHANGED <<lwSent, lwSendFailed, lwRemoves>>
    /\ UNCHANGED <<fsVars, mainVars, devices, watchVars, supVars, allocVars>>
    /\ UNCHANGED cancelled

\* ListAndWatch, lines 194-203: the map is iterated into devs and the first
\* message is sent; a failed send returns the error.
LwFirstSend ==
    /\ Alive
    /\ \E s \in Streams :
          /\ lwPc[s] = "first"
          /\ IF Overflows(devices, lwN[s])
                THEN /\ exitCode' = "panic"
                     /\ lwPc' = [lwPc EXCEPT ![s] = "panicked"]
                     /\ UNCHANGED <<lwSent, lwSendFailed>>
                ELSE /\ exitCode' = exitCode
                     /\ \E ok \in BOOLEAN :
                           IF ok
                              THEN /\ lwSent' = [lwSent EXCEPT ![s] =
                                         Append(@, Snapshot(devices, lwN[s]))]
                                   /\ lwPc' = [lwPc EXCEPT ![s] = "wait"]
                                   /\ lwSendFailed' = lwSendFailed
                              ELSE /\ lwSent' = lwSent
                                   /\ lwPc' = [lwPc EXCEPT ![s] = "returnedErr"]
                                   /\ lwSendFailed' = [lwSendFailed EXCEPT ![s] = TRUE]
    /\ UNCHANGED <<lwN, lwStart, lwRemoves>>
    /\ UNCHANGED <<mainPc, runPc, runErr, registerSent, listenerBound, dialOk>>
    /\ UNCHANGED <<fsVars, devices, watchVars, supVars, allocVars>>
    /\ UNCHANGED cancelled

\* ListAndWatch, lines 207-208: the call receives from s.notify, which lets the
\* event loop's send complete.  One send is received by one call.
LwRecv ==
    /\ Alive
    /\ loopPc = "notify"
    /\ \E s \in Streams :
          /\ lwPc[s] = "wait"
          /\ lwPc' = [lwPc EXCEPT ![s] = "notified"]
    /\ loopPc' = "select"
    /\ UNCHANGED <<watchPc, watching, events>>
    /\ UNCHANGED <<lwN, lwSent, lwStart, lwSendFailed, lwRemoves>>
    /\ UNCHANGED <<fsVars, mainVars, devices, supVars, allocVars>>
    /\ UNCHANGED cancelled

\* ListAndWatch, lines 209-210: len(s.devices) is read for the new slice.
LwLen ==
    /\ Alive
    /\ \E s \in Streams :
          /\ lwPc[s] = "notified"
          /\ lwPc' = [lwPc EXCEPT ![s] = "next"]
          /\ lwN' = [lwN EXCEPT ![s] = Cardinality(DOMAIN devices)]
    /\ UNCHANGED <<lwSent, lwStart, lwSendFailed, lwRemoves>>
    /\ UNCHANGED <<fsVars, mainVars, devices, watchVars, supVars, allocVars>>
    /\ UNCHANGED cancelled

\* ListAndWatch, lines 211-216: the map is iterated and the message is sent;
\* the result of this Send is dropped and the call waits again.
LwNextSend ==
    /\ Alive
    /\ \E s \in Streams :
          /\ lwPc[s] = "next"
          /\ IF Overflows(devices, lwN[s])
                THEN /\ exitCode' = "panic"
                     /\ lwPc' = [lwPc EXCEPT ![s] = "panicked"]
                     /\ UNCHANGED <<lwSent, lwSendFailed>>
                ELSE /\ exitCode' = exitCode
                     /\ lwPc' = [lwPc EXCEPT ![s] = "wait"]
                     /\ \E ok \in BOOLEAN :
                           IF ok
                              THEN /\ lwSent' = [lwSent EXCEPT ![s] =
                                         Append(@, Snapshot(devices, lwN[s]))]
                                   /\ lwSendFailed' = lwSendFailed
                              ELSE /\ lwSent' = lwSent
                                   /\ lwSendFailed' = [lwSendFailed EXCEPT ![s] = TRUE]
    /\ UNCHANGED <<lwN, lwStart, lwRemoves>>
    /\ UNCHANGED <<mainPc, runPc, runErr, registerSent, listenerBound, dialOk>>
    /\ UNCHANGED <<fsVars, devices, watchVars, supVars, allocVars>>
    /\ UNCHANGED cancelled

\* ------------------------------------------------------------ specification
Next ==
    \/ MainGoRun
    \/ MainRegister
    \/ MainWatchKubelet
    \/ RunFindDevice
    \/ RunGoWatch
    \/ RunListen
    \/ RunGoServe
    \/ RunDial
    \/ FsCreateFile
    \/ FsRemoveFile
    \/ FsMkdir
    \/ FsRmdir
    \/ WatchNewWatcher
    \/ WatchAdd
    \/ LoopEvent
    \/ LwStart
    \/ LwFirstSend
    \/ LwRecv
    \/ LwLen
    \/ LwNextSend

Spec == Init /\ [][Next]_vars


\* The program after a start-up in which nothing failed: Run has scanned the
\* directory, started the watchDevice goroutine (not yet scheduled), bound the
\* socket, started Serve and returned nil, and main has registered and stands
\* in its kubelet.sock loop.
InitWatch ==
    /\ cancelled = FALSE
    /\ fsFiles \in SUBSET FileNames
    /\ fsDirs \in SUBSET DirNames
    /\ fsLog = <<>>
    /\ missed = FALSE
    /\ scanned = fsFiles
    /\ devices = ScanDevices(fsFiles)
    /\ mainPc = "watchKubelet"
    /\ runPc = "returned"
    /\ runErr = "nil"
    /\ exitCode = "running"
    /\ registerSent = TRUE
    /\ listenerBound = TRUE
    /\ dialOk = TRUE
    /\ watchPc = "newWatcher"
    /\ loopPc = "init"
    /\ watching = FALSE
    /\ events = <<>>
    /\ lwPc = [s \in Streams |-> "idle"]
    /\ lwN = [s \in Streams |-> 0]
    /\ lwSent = [s \in Streams |-> <<>>]
    /\ lwStart = [s \in Streams |-> {}]
    /\ lwSendFailed = [s \in Streams |-> FALSE]
    /\ lwRemoves = [s \in Streams |-> 0]
    /\ supPc = "serving"
    /\ now = 0
    /\ ticks = 0
    /\ startTime = 0
    /\ restartNum = 0
    /\ fatalLogs = 0
    /\ failures = 0
    /\ attemptStart = 0
    /\ InitNoAlloc

NextWatch ==
    \/ FsCreateFile
    \/ FsRemoveFile
    \/ FsMkdir
    \/ FsRmdir
    \/ WatchNewWatcher
    \/ WatchAdd
    \/ LoopEvent
    \/ LwStart
    \/ LwFirstSend
    \/ LwRecv
    \/ LwLen
    \/ LwNextSend

SpecWatch == InitWatch /\ [][NextWatch]_vars


\* ------------------------------------------------- the supervised Serve loop
\* Run, lines 131-133: the "has repeatedly crashed" error is logged.
LogsFatal (rn) ==
    rn > maxRestartNum

\* Run, lines 135-140: restartNum after a failure, from the seconds since
\* startTime.
NextRestartNum_Inclusive (rn, crashSeconds) ==
    IF crashSeconds >= maxCrashPeriod THEN 1 ELSE rn + 1

NextRestartNum_Inverted (rn, crashSeconds) ==
    IF crashSeconds > maxCrashPeriod THEN rn + 1 ELSE 1

NextRestartNum (rn, crashSeconds) ==
    IF crashSeconds > maxCrashPeriod THEN 1 ELSE rn + 1

\* Time passes: by a second, or by a whole crash period.
Tick ==
    /\ ticks < MaxTicks
    /\ ticks' = ticks + 1
    /\ \E d \in {1, maxCrashPeriod} : now' = now + d
    /\ UNCHANGED <<supPc, startTime, restartNum, fatalLogs, failures, attemptStart>>
    /\ UNCHANGED <<fsVars, mainVars, devices, watchVars, lwVars, allocVars>>
    /\ UNCHANGED cancelled

\* The loop that quits, as its message says, when restartNum is over the
\* maximum.
ServeFail_Quits ==
    /\ Alive
    /\ supPc = "serving"
    /\ failures < MaxFailures
    /\ failures' = failures + 1
    /\ fatalLogs' = IF LogsFatal(restartNum) THEN fatalLogs + 1 ELSE fatalLogs
    /\ supPc' = IF LogsFatal(restartNum) THEN "stopped" ELSE supPc
    /\ restartNum' = NextRestartNum(restartNum, now - startTime)
    /\ attemptStart' = now
    /\ UNCHANGED <<now, ticks, startTime>>
    /\ UNCHANGED <<fsVars, mainVars, devices, watchVars, lwVars, allocVars>>
    /\ UNCHANGED cancelled

\* Run, lines 124-141: Serve returns an error.  The loop logs, logs the fatal
\* message when restartNum is over the maximum, updates restartNum from the
\* time since startTime, and calls Serve again.  startTime is not assigned.
ServeFail ==
    /\ Alive
    /\ supPc = "serving"
    /\ failures < MaxFailures
    /\ failures' = failures + 1
    /\ fatalLogs' = IF LogsFatal(restartNum) THEN fatalLogs + 1 ELSE fatalLogs
    /\ restartNum' = NextRestartNum(restartNum, now - startTime)
    /\ attemptStart' = now
    /\ UNCHANGED <<supPc, now, ticks, startTime>>
    /\ UNCHANGED <<fsVars, mainVars, devices, watchVars, lwVars, allocVars>>
    /\ UNCHANGED cancelled

\* Run, lines 124-127: Serve returns nil and the loop ends.
ServeReturnsNil ==
    /\ Alive
    /\ supPc = "serving"
    /\ supPc' = "stopped"
    /\ UNCHANGED <<now, ticks, startTime, restartNum, fatalLogs, failures, attemptStart>>
    /\ UNCHANGED <<fsVars, mainVars, devices, watchVars, lwVars, allocVars>>
    /\ UNCHANGED cancelled

\* Run has scanned an empty directory and bound the socket, and is about to
\* start the goroutine of the loop (line 119); main has not registered yet.
InitSup ==
    /\ cancelled = FALSE
    /\ fsFiles = {}
    /\ fsDirs = {}
    /\ fsLog = <<>>
    /\ missed = FALSE
    /\ scanned = {}
    /\ devices = EmptyMap
    /\ mainPc = "register"
    /\ runPc = "goServe"
    /\ runErr = "none"
    /\ exitCode = "running"
    /\ registerSent = FALSE
    /\ listenerBound = TRUE
    /\ dialOk = FALSE
    /\ watchPc = "newWatcher"
    /\ loopPc = "init"
    /\ watching = FALSE
    /\ events = <<>>
    /\ lwPc = [s \in Streams |-> "idle"]
    /\ lwN = [s \in Streams |-> 0]
    /\ lwSent = [s \in Streams |-> <<>>]
    /\ lwStart = [s \in Streams |-> {}]
    /\ lwSendFailed = [s \in Streams |-> FALSE]
    /\ lwRemoves = [s \in Streams |-> 0]
    /\ supPc = "idle"
    /\ now = 0
    /\ ticks = 0
    /\ startTime = 0
    /\ restartNum = 0
    /\ fatalLogs = 0
    /\ failures = 0
    /\ attemptStart = 0
    /\ InitNoAlloc

NextSup ==
    \/ Tick
    \/ RunGoServe
    \/ ServeFail
    \/ ServeReturnsNil

SpecSup == InitSup /\ [][NextSup]_vars

\* ----------------------------------------------------------------- Allocate
\* strings.Join(elems, sep): "" for no element, the element for one, and
\* otherwise the first element followed by sep and the next, for each next.
RECURSIVE JoinRest(_, _, _)
JoinRest (elems, sep, i) ==
    IF i > Len(elems)
       THEN ""
       ELSE sep \o elems[i] \o JoinRest(elems, sep, i + 1)

RECURSIVE JoinEach(_, _, _)
JoinEach (elems, sep, i) ==
    IF i > Len(elems)
       THEN ""
       ELSE elems[i] \o sep \o JoinEach(elems, sep, i + 1)

Join_Trailing (elems, sep) ==
    JoinEach(elems, sep, 1)

Join (elems, sep) ==
    CASE Len(elems) = 0 -> ""
      [] Len(elems) = 1 -> elems[1]
      [] OTHER -> elems[1] \o JoinRest(elems, sep, 2)

\* Allocate, lines 178-186: the response of one container sub-request, a map
\* Envs with the one key MICRO_DEVICES.
ContainerResponse (ids) ==
    [Envs |-> (EnvKey :> Join(ids, ","))]

\* Allocate, lines 177-187: the loop appends one response per sub-request.
RECURSIVE AllocateLoop(_, _, _)
AllocateLoop (reqs, i, result) ==
    IF i > Len(reqs)
       THEN result
       ELSE AllocateLoop(reqs, i + 1, Append(result, ContainerResponse(reqs[i])))

Allocate ==
    /\ ~allocDone
    /\ allocResp' = AllocateLoop(allocReq, 1, <<>>)
    /\ allocErr' = "nil"
    /\ allocDone' = TRUE
    /\ UNCHANGED allocReq
    /\ UNCHANGED <<fsVars, mainVars, devices, watchVars, lwVars, supVars>>
    /\ UNCHANGED cancelled

\* Device IDs a request may name: the empty string, an ID that no record has
\* (and that holds a comma), and the ID of the record of "a".
AllocIDs == {"", "d1,d2", MD5("a")}

SeqsUpTo (S, n) ==
    UNION {[1 .. k -> S] : k \in 0 .. n}

\* The server of InitWatch with the file "a" registered, and one request.
InitAlloc ==
    /\ cancelled = FALSE
    /\ fsFiles = {"a"}
    /\ fsDirs = {}
    /\ fsLog = <<>>
    /\ missed = FALSE
    /\ scanned = fsFiles
    /\ devices = ScanDevices(fsFiles)
    /\ mainPc = "watchKubelet"
    /\ runPc = "returned"
    /\ runErr = "nil"
    /\ exitCode = "running"
    /\ registerSent = TRUE
    /\ listenerBound = TRUE
    /\ dialOk = TRUE
    /\ watchPc = "newWatcher"
    /\ loopPc = "init"
    /\ watching = FALSE
    /\ events = <<>>
    /\ lwPc = [s \in Streams |-> "idle"]
    /\ lwN = [s \in Streams |-> 0]
    /\ lwSent = [s \in Streams |-> <<>>]
    /\ lwStart = [s \in Streams |-> {}]
    /\ lwSendFailed = [s \in Streams |-> FALSE]
    /\ lwRemoves = [s \in Streams |-> 0]
    /\ supPc = "serving"
    /\ now = 0
    /\ ticks = 0
    /\ startTime = 0
    /\ restartNum = 0
    /\ fatalLogs = 0
    /\ failures = 0
    /\ attemptStart = 0
    /\ allocReq \in SeqsUpTo(SeqsUpTo(AllocIDs, MaxIDs), MaxContainers)
    /\ allocResp = <<>>
    /\ allocDone = FALSE
    /\ allocErr = "none"

NextAlloc ==
    \/ Allocate

SpecAlloc == InitAlloc /\ [][NextAlloc]_vars


\* ------------------------------------------------------------- cancellation
\* s.cancel() is called: s.ctx.Done() is closed from then on.  Nothing in the
\* program calls it; the step is the caller's.
Cancel ==
    /\ Alive
    /\ ~cancelled
    /\ cancelled' = TRUE
    /\ UNCHANGED <<fsVars, mainVars, devices, watchVars, lwVars, supVars, allocVars>>

\* The event loop, lines 308-309: the case <-s.ctx.Done() runs `break`, which
\* leaves the select statement; the for loop goes on to the next select.
LoopCancel ==
    /\ Alive
    /\ loopPc = "select"
    /\ cancelled
    /\ loopPc' = "select"
    /\ UNCHANGED <<watchPc, watching, events>>
    /\ UNCHANGED <<fsVars, mainVars, devices, cancelled, lwVars, supVars, allocVars>>

\* ListAndWatch, lines 217-219: the call takes the case <-s.ctx.Done() of its
\* select and returns nil.
LwCancel ==
    /\ Alive
    /\ cancelled
    /\ \E s \in Streams :
          /\ lwPc[s] = "wait"
          /\ lwPc' = [lwPc EXCEPT ![s] = "returnedNil"]
    /\ UNCHANGED <<lwN, lwSent, lwStart, lwSendFailed, lwRemoves>>
    /\ UNCHANGED <<fsVars, mainVars, devices, cancelled, watchVars, supVars, allocVars>>

NextCancel ==
    \/ NextWatch
    \/ Cancel
    \/ LoopCancel
    \/ LwCancel

SpecCancel == InitWatch /\ [][NextCancel]_vars

\* Every goroutine that can take a step takes one: watchDevice, the event
\* loop, and each step of a ListAndWatch call.
Fairness ==
    /\ WF_vars(WatchNewWatcher)
    /\ WF_vars(WatchAdd)
    /\ WF_vars(LoopEvent)
    /\ WF_vars(LwFirstSend)
    /\ WF_vars(LwRecv)
    /\ WF_vars(LwLen)
    /\ WF_vars(LwNextSend)
    /\ WF_vars(LwCancel)

SpecCancelFair == SpecCancel /\ Fairness

\* ================================================================== claims

\* The entry of the watched directory that a registry key names, whichever of
\* the entry's two names the key is.
EntryOfKey (k) ==
    CHOOSE f \in FileNames \cup DirNames : k \in {ScanName(f), EventName(f)}

\* The watcher has processed every change made since the scan.
Settled ==
    /\ Alive
    /\ watching
    /\ ~missed
    /\ loopPc = "select"
    /\ events = <<>>

\* C1: once the watcher has processed every create/remove event that followed
\* the scan, the keys of the registry are exactly the non-directory entries
\* present in the watched directory, one key per entry (a key may be the
\* entry's scan name or its event name).
C1_RegistryMatchesDirectory ==
    Settled =>
        /\ {EntryOfKey(k) : k \in DOMAIN devices} = fsFiles
        /\ Cardinality(DOMAIN devices) = Cardinality(fsFiles)

\* C1, the case: a file the scan registered has been removed and the watcher
\* has processed the event.
C1_ScannedFileRemoved ==
    /\ Settled
    /\ \E f \in scanned : fsLog = <<[op |-> "Remove", entry |-> f]>>

\* C2: the first message of a stream holds exactly the records the registry
\* had when the call started, with no other slot, also when that is no record.
C2_FirstMessageIsStartSnapshot ==
    \A s \in Streams :
        Len(lwSent[s]) >= 1 =>
            lwSent[s][1] = [Devices |-> lwStart[s], nilSlots |-> 0]

\* C2, the case: a stream has sent its first message.
C2_FirstMessageSent ==
    \E s \in Streams : Len(lwSent[s]) >= 1

\* C3: when the watcher is past every notification and a stream whose sends
\* all succeeded is waiting, that stream has sent a snapshot after its first
\* for each remove event the watcher processed while the stream was open.  (A
\* stream may besides have sent the snapshot of a notification that was still
\* undelivered when it started.)
C3_SnapshotPerRemoveOnEveryStream ==
    \A s \in Streams :
        (lwPc[s] = "wait" /\ loopPc = "select" /\ ~lwSendFailed[s]) =>
            Len(lwSent[s]) >= 1 + lwRemoves[s]

\* C3, the case: a remove event was processed with two streams open.
C3_RemoveWithTwoStreamsOpen ==
    \E s, t \in Streams : s # t /\ lwRemoves[s] >= 1 /\ lwRemoves[t] >= 1

\* C4: when the one change since the scan is the removal of a file the scan
\* registered, the snapshot a stream sends after it holds exactly the records
\* of the other files the scan registered.
C4_SnapshotAfterRemoveOfScanned ==
    \A s \in Streams : \A f \in scanned :
        ( /\ fsLog = <<[op |-> "Remove", entry |-> f]>>
          /\ lwRemoves[s] = 1
          /\ Len(lwSent[s]) = 2 ) =>
            lwSent[s][2] =
                [Devices |-> {Device(ScanName(g)) : g \in scanned \ {f}},
                 nilSlots |-> 0]

\* C4, the case: the directory held a and b at the scan, a was removed and a
\* stream has sent the snapshot that follows.
C4_RemovedAOfAB ==
    \E s \in Streams :
        /\ scanned = {"a", "b"}
        /\ fsLog = <<[op |-> "Remove", entry |-> "a"]>>
        /\ lwRemoves[s] = 1
        /\ Len(lwSent[s]) = 2

\* C5: Allocate returns without error one response per container sub-request,
\* in order, each with the one environment variable MICRO_DEVICES whose value
\* is the sub-request's IDs with a comma between neighbours; no ID is checked
\* against the registry.
RECURSIVE CommaSeparated(_)
CommaSeparated (ids) ==
    IF Len(ids) = 0
       THEN ""
       ELSE IF Len(ids) = 1
               THEN ids[1]
               ELSE CommaSeparated(SubSeq(ids, 1, Len(ids) - 1))
                        \o "," \o ids[Len(ids)]

C5_AllocateJoinsIDs ==
    allocDone =>
        /\ allocErr = "nil"
        /\ Len(allocResp) = Len(allocReq)
        /\ \A i \in 1 .. Len(allocReq) :
              /\ DOMAIN allocResp[i].Envs = {EnvKey}
              /\ allocResp[i].Envs[EnvKey] = CommaSeparated(allocReq[i])

\* C5, the case: a request of two sub-requests, the first naming an ID of the
\* registry and an ID that no record has, the second naming nothing.
C5_TwoContainersAnswered ==
    /\ allocDone
    /\ Len(allocReq) = 2
    /\ allocReq[1] = <<MD5("a"), "d1,d2">>
    /\ allocReq[2] = <<>>
    /\ MD5("a") \in {r.ID : r \in Records(devices)}
    /\ "d1,d2" \notin {r.ID : r \in Records(devices)}

\* C6: the registration handshake is sent only after the scan has completed,
\* the socket has been bound and the readiness dial of Run has succeeded.
C6_RegisterAfterReady ==
    registerSent => (ScanDone /\ listenerBound /\ dialOk)

\* C6, the case: the handshake has been sent.
C6_HandshakeSent ==
    registerSent

\* C7: when Run has failed to read the directory or to bind the socket and
\* main has gone on into its final loop, the process has exited with a
\* non-zero status.
C7_StartupErrorExits ==
    (runErr \in {"readDir", "unlinkErr", "listenErr"} /\ mainPc = "watchKubelet") =>
        exitCode \in NonZeroExit

\* C7, the case: Run has returned a start-up error.
C7_RunFailed ==
    runErr \in {"readDir", "unlinkErr", "listenErr"}

\* A step of the supervised loop in which Serve has failed.
ServeFailed ==
    failures' = failures + 1

\* C8: a Serve failure no later than maxCrashPeriod seconds after the loop
\* started adds one to restartNum, and a failure with restartNum over
\* maxRestartNum logs the "repeatedly crashed" error.
C8_FailureCountsAndLogs ==
    [][ServeFailed =>
          /\ (now - startTime <= maxCrashPeriod => restartNum' = restartNum + 1)
          /\ (restartNum > maxRestartNum => fatalLogs' = fatalLogs + 1)]_vars

\* C8, the case: within the crash period of the loop's start the counter has
\* passed the maximum and a further failure has logged the error.
C8_FatalLoggedInPeriod ==
    /\ now - startTime <= maxCrashPeriod
    /\ restartNum = maxRestartNum + 2
    /\ fatalLogs = 1

\* C9: a Serve failure sets restartNum to 1 when more than maxCrashPeriod
\* seconds have passed since the loop started and adds one to it otherwise; no
\* other step changes restartNum.
C9_RestartNumTransitions ==
    [][IF ServeFailed
          THEN restartNum' = IF now - startTime > maxCrashPeriod
                                THEN 1
                                ELSE restartNum + 1
          ELSE restartNum' = restartNum]_vars

\* C9, the case: after several failures counted within the period, a failure
\* past the period has set the counter back to 1.
C9_ResetAfterPeriod ==
    /\ failures >= 3
    /\ restartNum = 1
    /\ now - startTime > maxCrashPeriod

\* C10: the start time the loop keeps is that of the current Serve call, and a
\* failure sets restartNum to 0 when that call has lasted more than
\* maxCrashPeriod seconds and adds one to it otherwise.
C10_PerAttemptWindow ==
    [][ServeFailed =>
          /\ startTime' = now
          /\ restartNum' = IF now - attemptStart > maxCrashPeriod
                              THEN 0
                              ELSE restartNum + 1]_vars

\* C10, the case: a Serve call that failed within a second of its start,
\* after an earlier call had lasted longer than the period.
C10_QuickFailureAfterLongAttempt ==
    /\ failures >= 2
    /\ attemptStart = now
    /\ now - startTime > maxCrashPeriod + 1

\* C11: whenever s.ctx is cancelled while watchDevice waits for its event
\* loop, the loop eventually exits (from the wait for an event or from the
\* send of a removal notification), and watchDevice then returns and closes
\* the file-system subscription.  A process that has ended has ended its
\* watcher too.
C11_CancelEndsWatcher ==
    (cancelled /\ watchPc = "waitDone")
        ~> ((watchPc = "returned" /\ ~watching) \/ ~Alive)

\* s.ctx is cancelled while the loop stands at the send on s.notify.
C11_CancelledWhileNotifying ==
    cancelled /\ watchPc = "waitDone" /\ loopPc = "notify"

\* C12: when s.ctx is cancelled while a ListAndWatch call waits in its loop,
\* the call eventually returns nil, and a call that has returned nil sends no
\* further snapshot.
C12_CancelEndsStream ==
    /\ \A s \in Streams :
          (cancelled /\ lwPc[s] = "wait") ~> (lwPc[s] = "returnedNil")
    /\ [][\A s \in Streams :
             lwPc[s] = "returnedNil"
                => lwPc'[s] = "returnedNil" /\ lwSent'[s] = lwSent[s]]_vars

\* A call has returned nil after the cancellation, having sent its snapshots.
C12_StreamReturnedNil ==
    \E s \in Streams :
        cancelled /\ lwPc[s] = "returnedNil" /\ Len(lwSent[s]) >= 1

\* C13: a failed send, the first or a later one, ends the ListAndWatch call
\* with an error: a call whose send failed is not waiting, it has returned the
\* error.
C13_FailedSendEndsCall ==
    \A s \in Streams :
        lwSendFailed[s] /\ Alive => lwPc[s] = "returnedErr"

\* A later send of an open stream has failed, after a first one that was sent.
C13_LaterSendFailed ==
    \E s \in Streams :
        lwSendFailed[s] /\ Len(lwSent[s]) >= 1 /\ lwRemoves[s] >= 1

\* C14: on an open stream whose sends succeed the latest registry state is
\* not omitted: once the watcher has handled every event and the call waits
\* again, the last snapshot sent equals the registry's contents.
C14_LatestStateSent ==
    \A s \in Streams :
        (/\ Alive
         /\ watching
         /\ loopPc = "select"
         /\ events = <<>>
         /\ lwPc[s] = "wait"
         /\ ~lwSendFailed[s]
         /\ Len(lwSent[s]) >= 1)
        => lwSent[s][Len(lwSent[s])].Devices = Records(devices)

\* A create event has been handled while a stream whose first send succeeded
\* waits.
C14_CreateHandledWhileOpen ==
    \E s \in Streams :
        /\ lwPc[s] = "wait"
        /\ ~lwSendFailed[s]
        /\ loopPc = "select"
        /\ events = <<>>
        /\ \E i \in 1 .. Len(fsLog) : fsLog[i].op = "Create"
        /\ \E k \in DOMAIN devices : devices[k] \notin lwSent[s][1].Devices

\* C15: a remove event leaves the watcher at the send on the unbuffered
\* s.notify; while it stands there it handles no further event (the registry
\* is not written, no event is taken from the queue), and it leaves the send
\* only by a ListAndWatch call that was waiting receiving it: with no such
\* call it stays there.
C15_WatcherBlocksOnNotify ==
    [][/\ (/\ loopPc = "select"
           /\ events # <<>>
           /\ events' = Tail(events)
           /\ "Remove" \in Head(events).op)
          => loopPc' = "notify"
       /\ loopPc = "notify"
          => /\ devices' = devices
             /\ Len(events') >= Len(events)
             /\ loopPc' = "notify"
                \/ \E s \in Streams :
                      lwPc[s] = "wait" /\ lwPc'[s] = "notified"]_vars

\* The watcher stands at the send with an event pending and no call waiting.
C15_BlockedWithEventPending ==
    /\ Alive
    /\ loopPc = "notify"
    /\ events # <<>>
    /\ \A s \in Streams : lwPc[s] # "wait"

C17_LoopEndsOnlyOnNil ==
    [][/\ ServeFailed
          => /\ supPc = "serving"
             /\ supPc' = "serving"
             /\ listenerBound' = listenerBound
             /\ exitCode' = exitCode
       /\ (supPc = "serving" /\ supPc' # "serving")
          => /\ supPc' = "stopped"
             /\ failures' = failures
             /\ fatalLogs' = fatalLogs
       /\ supPc = "stopped"
          => supPc' = "stopped" /\ failures' = failures]_vars

\* Serve is running again after a failure that logged the fatal message.
C17_ServingAfterFatalLog ==
    /\ Alive
    /\ supPc = "serving"
    /\ fatalLogs >= 1
    /\ LogsFatal(restartNum)
    /\ listenerBound

\* C18: every snapshot ListAndWatch builds is a copy of the registry at one
\* instant: the slice has no nil slot, and building it never writes past the
\* slice's end (which panics).
C18_SnapshotsConsistent ==
    /\ exitCode # "panic"
    /\ \A s \in Streams :
          \A i \in 1 .. Len(lwSent[s]) : lwSent[s][i].nilSlots = 0

\* A stream has been sent a slice with a nil slot: the registry shrank between
\* the call's len(s.devices) and its iteration.
C18_NilSlotSent ==
    \E s \in Streams :
        \E i \in 1 .. Len(lwSent[s]) : lwSent[s][i].nilSlots > 0

\* C19: a directory entry has one registry key and one identifier, whether the
\* scan or a create event found it: no two keys of the registry stand for the
\* same entry (a create of a scanned entry overwrites its record).  Stated
\* for the runs in which the watcher was told of every change.
C19_OneKeyPerEntry ==
    ~missed
        => \A k1, k2 \in DOMAIN devices :
              EntryOfKey(k1) = EntryOfKey(k2)
                  => k1 = k2 /\ devices[k1].ID = devices[k2].ID

\* A scanned entry has been created again and the watcher has handled the
\* event.
C19_ScannedEntryCreatedAgain ==
    \E f \in scanned :
        /\ \E i \in 1 .. Len(fsLog) : fsLog[i] = [op |-> "Create", entry |-> f]
        /\ events = <<>>
        /\ watching
        /\ ~missed
        /\ EventName(f) \in DOMAIN devices

\* C20: a remove event is notified whether or not the removed name has a
\* record: the loop goes to its send on s.notify either way, and for a name
\* without a record the registry is left as it was, so that the snapshot a
\* stream is sent next can equal the one before.
C20_RemoveAlwaysNotifies ==
    [][(/\ loopPc = "select"
        /\ events # <<>>
        /\ events' = Tail(events)
        /\ "Remove" \in Head(events).op)
       => /\ loopPc' = "notify"
          /\ Head(events).name \notin DOMAIN devices'
          /\ Head(events).name \notin DOMAIN devices => devices' = devices]_vars

\* A stream has been sent the same snapshot twice in a row, after the remove
\* of a name that had no record.
C20_SameSnapshotTwice ==
    \E s \in Streams :
        /\ Len(lwSent[s]) >= 2
        /\ lwSent[s][1] = lwSent[s][2]
        /\ lwSent[s][1].nilSlots = 0
        /\ lwSent[s][1].Devices = Records(devices)

=============================================================================
